---- MODULE Spec2Model ----
(***************************************************************************)
(* Stepper motor driver of pico-nutator (src/src/stepper-motor.c): the     *)
(* phase sequencer, the ramp controller and the step clock, driven by the  *)
(* free-running microsecond counter time_us_64().                          *)
(***************************************************************************)
EXTENDS Integers, Naturals, Sequences, FiniteSets, TLC

(* ---------------------------------------------------------------- bounds *)
\* the clock is advanced one microsecond at a time up to MaxTime
MaxTime == 4
\* in LiveSpec the caller makes its control calls up to CallWindow and only
\* polls afterwards, while the clock advances for another RampBudget
CallWindow == 2
RampBudget == 8
\* stepper_step may be called while step_count is below MaxSteps
MaxSteps == 2
\* largest advance of the counter between the two reads of stepper_set_rpm
MaxReadSkew == 1
\* in GateSpec the clock is advanced up to GateMaxTime
GateMaxTime == 3

(* ------------------------------------------------------ program constants *)
US_PER_SEC == 1000000
US_PER_MIN == 60 * US_PER_SEC

STEPPER_MODE_WAVE == 0
STEPPER_MODE_DUAL_PHASE == 1
STEPPER_MODE_HALF_STEP == 2

\* ARRAY_COUNT(motor_pins): the windings main() registers
NUM_MOTOR_PINS == 4

\* the configuration main() gives the driver
MAX_RPM == 60
RPM_STEP == 5
STEPS_PER_REV == 200
MOTOR_ACCEL == 60
MOTOR_ENABLE_PIN == 8

(* ------------------------------------------------------------ input sets *)
\* arguments of stepper_create, <<steps_per_rev, mode, enable_pin>>: each gives
\* 500000 effective steps per revolution, so that a speed of r rpm is an
\* interval of 120/r microseconds; a negative enable_pin is a driver stage
\* without an enable input
CreateInputs == {<<500000, STEPPER_MODE_WAVE, -1>>,
                 <<500000, STEPPER_MODE_DUAL_PHASE, -1>>,
                 <<250000, STEPPER_MODE_HALF_STEP, MOTOR_ENABLE_PIN>>}
MaxRpmInputs == {60}
\* arguments of stepper_set_rpm: intervals 0, 5, 2; 90 is above every max_rpm
RpmInputs == {0, 24, 60, 90}
\* arguments of stepper_set_accel, <<rpm_per_sec, min_rpm>>: 1 rpm/s is a ramp
\* unit of 2 microseconds, 30 rpm a floor interval of 4
AccelInputs == {<<0, 30>>, <<1, 30>>}

(* ----------------------------------------------------------------- state *)
VARIABLES
    steps_per_rev, max_rpm, mode,       \* fixed by stepper_create
    enable_pin,                         \* fixed by stepper_create, negative for none
    enable_gpio,                        \* level put on the enable pin, 0 without one
    num_pins,                           \* windings registered
    mask, half_mask,                    \* primary and secondary pattern
    gpio,                               \* windings driven by the last update()
    target_rpm, us_per_step_target,     \* commanded speed and its interval
    us_per_step,                        \* interval applied by the ramp
    us_accel, max_us_per_step,          \* acceleration limit, floor interval
    last_step, last_accel_step,         \* time anchors of step and ramp
    step_count,
    now,                                \* time_us_64()
    op,                                 \* the last call made on the driver
    rpm_arg,                            \* its argument when it was stepper_set_rpm, else 0
    ret,                                \* its result when it was stepper_update, else FALSE
    ramp_t0,                            \* RampSpec: the clock after the last stepper_set_rpm
                                        \* that changed the target
    ramp_change,                        \* RampSpec: the sum of the changes the ramp step
                                        \* has made to us_per_step since then
    run, sleeping,                      \* main.c: the flags of the same name
    persist_target_rpm,                 \* main.c: persist.target_rpm
    sleep_start,                        \* main.c: the local of main() of the same name
    loop_now,                           \* main.c: the local now of main()
    pc,                                 \* main.c: the statement main() is about to execute
    btn,                                \* button.c: the fields of one struct button
    now32,                              \* button.c: time_us_32(), in units of 8 us
    last_event,                         \* ButtonSpec: the last of down and up reported
    press_age,                          \* ButtonSpec: time since the input was first polled
                                        \* pressed without a released poll since, else -1
    polls                               \* ButtonSpec: number of calls of button_update

config_vars == <<steps_per_rev, max_rpm, mode, enable_pin, num_pins>>
phase_vars == <<mask, half_mask, gpio, step_count>>
speed_vars == <<target_rpm, us_per_step_target>>
accel_vars == <<us_accel, max_us_per_step>>
time_vars == <<last_step, last_accel_step>>
motor_vars ==
    <<config_vars, enable_gpio, phase_vars, speed_vars, us_per_step, accel_vars, time_vars>>
\* the history RampSpec keeps; the other specifications leave it alone
hist_vars == <<ramp_t0, ramp_change>>
main_vars == <<run, sleeping, persist_target_rpm, sleep_start, loop_now, pc>>
button_vars == <<btn, now32, last_event, press_age, polls>>
\* the state of main.c and button.c; the specifications of the driver alone
\* leave it alone
app_vars == <<main_vars, button_vars>>
vars == <<motor_vars, now, op, rpm_arg, ret, hist_vars, app_vars>>

(* --------------------------------------------------------------- helpers *)
MIN(a, b) == IF a < b THEN a ELSE b
MAX(a, b) == IF a > b THEN a ELSE b

Pow2(n) == 2 ^ n

RECURSIVE BitOr(_, _)
BitOr(a, b) ==
    IF a = 0 THEN b
    ELSE IF b = 0 THEN a
    ELSE (IF a % 2 = 1 \/ b % 2 = 1 THEN 1 ELSE 0) + 2 * BitOr(a \div 2, b \div 2)

RECURSIVE BitAnd(_, _)
BitAnd(a, b) ==
    IF a = 0 \/ b = 0 THEN 0
    ELSE (IF a % 2 = 1 /\ b % 2 = 1 THEN 1 ELSE 0) + 2 * BitAnd(a \div 2, b \div 2)

\* US_PER_MIN / ((uint64_t)rpm * s->steps_per_rev), for rpm * spr > 0
rpm_to_step_us(spr, rpm) == US_PER_MIN \div (rpm * spr)

\* the windings update() drives, by level or by PWM function: bit i of
\* (mask | half_mask) for i < num_pins
update(m, h, n) == BitAnd(BitOr(m, h), Pow2(n) - 1)

\* a rotation that goes forward whatever the direction asked for
step_mask_one_way(m, forward, n) ==
    BitAnd(BitOr(m, IF m % 2 = 1 THEN Pow2(n) ELSE 0) \div 2, Pow2(n) - 1)

\* a rotation that drops the bit stepped off either end
step_mask_no_wrap(m, forward, n) ==
    IF forward
    THEN BitAnd(m \div 2, Pow2(n) - 1)
    ELSE BitAnd(m * 2, Pow2(n) - 1)

step_mask(m, forward, n) ==
    IF forward
    THEN BitAnd(BitOr(m, IF m % 2 = 1 THEN Pow2(n) ELSE 0) \div 2, Pow2(n) - 1)
    ELSE LET shifted == m * 2
         IN  BitAnd(BitOr(shifted, IF BitAnd(shifted, Pow2(n)) # 0 THEN 1 ELSE 0),
                    Pow2(n) - 1)

\* a hold that starts the two half-step masks on different windings
hold_pattern_split(md) ==
    IF md = STEPPER_MODE_WAVE THEN <<1, 0>>
    ELSE IF md = STEPPER_MODE_DUAL_PHASE THEN <<3, 0>>
    ELSE <<1, 2>>

\* the pattern stepper_hold establishes, <<mask, half_mask>>
hold_pattern(md) ==
    IF md = STEPPER_MODE_WAVE THEN <<1, 0>>
    ELSE IF md = STEPPER_MODE_DUAL_PHASE THEN <<3, 0>>
    ELSE <<1, 1>>

\* a step that starts the count again when it re-establishes the hold pattern
step_recounting(forward) ==
    IF mask = 0
    THEN <<hold_pattern(mode)[1], hold_pattern(mode)[2], 0>>
    ELSE IF mode # STEPPER_MODE_HALF_STEP \/ step_count % 2 = 1
    THEN <<step_mask(mask, forward, num_pins), half_mask, step_count + 1>>
    ELSE <<mask, step_mask(half_mask, forward, num_pins), step_count + 1>>

\* a step that rotates the primary mask whatever the parity of step_count
step_no_alternation(forward) ==
    IF mask = 0
    THEN <<hold_pattern(mode)[1], hold_pattern(mode)[2], step_count>>
    ELSE <<step_mask(mask, forward, num_pins), half_mask, step_count + 1>>

\* step(s, forward) as the new <<mask, half_mask, step_count>>
step(forward) ==
    IF mask = 0
    THEN <<hold_pattern(mode)[1], hold_pattern(mode)[2], step_count>>
    ELSE IF mode # STEPPER_MODE_HALF_STEP \/ step_count % 2 = 1
    THEN <<step_mask(mask, forward, num_pins), half_mask, step_count + 1>>
    ELSE <<mask, step_mask(half_mask, forward, num_pins), step_count + 1>>

(* ------------------------------------------------------------------ Init *)
\* stepper_create: calloc zeroes every field
\* main() has not been entered
MainOff ==
    /\ run = FALSE /\ sleeping = FALSE
    /\ persist_target_rpm = 0 /\ sleep_start = 0 /\ loop_now = 0
    /\ pc = "off"

\* struct button as calloc leaves it
button_zero ==
    [debounce_ms |-> 0, repeat_delay_ms |-> 0, repeat_ms |-> 0,
     start_time |-> 0, last_duration |-> 0,
     down |-> FALSE, up |-> FALSE, is_pressed |-> FALSE,
     state |-> "RELEASED", last_repeat |-> 0, repeat_count |-> 0]

\* no button has been created
ButtonOff ==
    /\ btn = button_zero /\ now32 = 0
    /\ last_event = "none" /\ press_age = -1 /\ polls = 0

Init ==
    /\ \E c \in CreateInputs :
           /\ mode = c[2]
           /\ steps_per_rev = IF c[2] = STEPPER_MODE_HALF_STEP THEN c[1] * 2 ELSE c[1]
           /\ enable_pin = c[3]
    /\ enable_gpio = 0
    /\ max_rpm \in MaxRpmInputs
    /\ num_pins = 0
    /\ mask = 0 /\ half_mask = 0 /\ gpio = 0 /\ step_count = 0
    /\ target_rpm = 0 /\ us_per_step_target = 0 /\ us_per_step = 0
    /\ us_accel = 0 /\ max_us_per_step = 0
    /\ last_step = 0 /\ last_accel_step = 0
    /\ now = 0
    /\ op = "create" /\ rpm_arg = 0 /\ ret = FALSE
    /\ ramp_t0 = 0 /\ ramp_change = 0
    /\ MainOff /\ ButtonOff

(* --------------------------------------------------------------- actions *)
\* the hardware counter advances
TickTo(limit) ==
    /\ now < limit
    /\ now' = now + 1
    /\ UNCHANGED <<motor_vars, op, rpm_arg, ret>>

Tick == TickTo(MaxTime)

\* windings are registered before the first other call on the driver
stepper_add_pin ==
    /\ op \in {"create", "add_pin"}
    /\ num_pins < NUM_MOTOR_PINS
    /\ num_pins' = num_pins + 1
    /\ op' = "add_pin" /\ rpm_arg' = 0 /\ ret' = FALSE
    /\ UNCHANGED <<steps_per_rev, max_rpm, mode, enable_pin, enable_gpio, phase_vars,
                   speed_vars, us_per_step, accel_vars, time_vars, now>>

stepper_set_accel(rpm_per_sec, min_rpm) ==
    /\ IF rpm_per_sec = 0
       THEN us_accel' = 0 /\ UNCHANGED max_us_per_step
       ELSE /\ us_accel' = rpm_to_step_us(steps_per_rev, rpm_per_sec * 60)
            /\ max_us_per_step' = rpm_to_step_us(steps_per_rev, min_rpm)
    /\ op' = "set_accel" /\ rpm_arg' = 0 /\ ret' = FALSE
    /\ UNCHANGED <<config_vars, enable_gpio, phase_vars, speed_vars, us_per_step,
                   time_vars, now>>

\* a direct step that leaves the time anchors where they were
stepper_step_keeps_anchors(forward) ==
    /\ step_count < MaxSteps
    /\ LET r == step(forward)
       IN  /\ mask' = r[1] /\ half_mask' = r[2] /\ step_count' = r[3]
           /\ gpio' = update(r[1], r[2], num_pins)
    /\ op' = "step" /\ rpm_arg' = 0 /\ ret' = FALSE
    /\ UNCHANGED <<config_vars, enable_gpio, speed_vars, us_per_step, accel_vars,
                   time_vars, now>>

stepper_step(forward) ==
    /\ step_count < MaxSteps
    /\ LET r == step(forward)
       IN  /\ mask' = r[1] /\ half_mask' = r[2] /\ step_count' = r[3]
           /\ gpio' = update(r[1], r[2], num_pins)
    /\ last_step' = now
    /\ last_accel_step' = now
    /\ op' = "step" /\ rpm_arg' = 0 /\ ret' = FALSE
    /\ UNCHANGED <<config_vars, enable_gpio, speed_vars, us_per_step, accel_vars, now>>

\* a stop that does not wait for the floor interval
finishes_stop_at_once == us_per_step_target = 0

\* a stop that is never finished from the floor interval
finishes_stop_from_rest == us_per_step_target = 0 /\ us_per_step = 0

\* the ramp has come down to the floor interval, or the motor is stopped
finishes_stop ==
    us_per_step_target = 0 /\ (us_per_step = max_us_per_step \/ us_per_step = 0)

\* a ramp that only shortens the interval
ramp_toward_down_only(cur, num_steps, target) ==
    IF cur > target THEN MAX(cur - num_steps, target) ELSE cur

\* a ramp that lengthens the interval without clamping at the target
ramp_toward_unclamped(cur, num_steps, target) ==
    IF cur < target THEN cur + num_steps
    ELSE IF cur > target THEN MAX(cur - num_steps, target)
    ELSE cur

\* us_per_step moved num_steps units toward target, clamped at it
ramp_toward(cur, num_steps, target) ==
    IF cur < target THEN MIN(cur + num_steps, target)
    ELSE IF cur > target THEN MAX(cur - num_steps, target)
    ELSE cur

\* a ramp that, with acceleration disabled, ignores a target of zero
ramp_never_stops_at_once ==
    IF us_accel # 0
    THEN IF finishes_stop
         THEN <<0, last_accel_step>>
         ELSE IF us_per_step_target # 0 /\ us_per_step = 0
         THEN <<max_us_per_step, last_accel_step>>
         ELSE IF now >= last_accel_step
         THEN LET num_steps == (now - last_accel_step) \div us_accel
                  target == IF us_per_step_target # 0 THEN us_per_step_target
                            ELSE max_us_per_step
              IN  << ramp_toward(us_per_step, num_steps, target),
                     last_accel_step + us_accel * num_steps >>
         ELSE <<us_per_step, last_accel_step>>
    ELSE <<IF us_per_step_target # 0 THEN us_per_step_target ELSE us_per_step,
           last_accel_step>>

\* a ramp that seeds from stopped and ramps in the same poll
ramp_seed_and_ramp ==
    IF us_accel # 0
    THEN IF finishes_stop
         THEN <<0, last_accel_step>>
         ELSE IF now >= last_accel_step
         THEN LET num_steps == (now - last_accel_step) \div us_accel
                  target == IF us_per_step_target # 0 THEN us_per_step_target
                            ELSE max_us_per_step
                  cur == IF us_per_step = 0 THEN max_us_per_step ELSE us_per_step
              IN  << ramp_toward(cur, num_steps, target),
                     last_accel_step + us_accel * num_steps >>
         ELSE <<IF us_per_step = 0 THEN max_us_per_step ELSE us_per_step, last_accel_step>>
    ELSE <<us_per_step_target, last_accel_step>>

\* a ramp that leaves its time anchor where it was
ramp_anchor_kept ==
    IF us_accel # 0
    THEN IF finishes_stop
         THEN <<0, last_accel_step>>
         ELSE IF us_per_step_target # 0 /\ us_per_step = 0
         THEN <<max_us_per_step, last_accel_step>>
         ELSE IF now >= last_accel_step
         THEN LET num_steps == (now - last_accel_step) \div us_accel
                  target == IF us_per_step_target # 0 THEN us_per_step_target
                            ELSE max_us_per_step
              IN  << ramp_toward(us_per_step, num_steps, target), last_accel_step >>
         ELSE <<us_per_step, last_accel_step>>
    ELSE <<us_per_step_target, last_accel_step>>

\* a ramp that moves its time anchor to the time of the poll
ramp_anchor_to_now ==
    IF us_accel # 0
    THEN IF finishes_stop
         THEN <<0, last_accel_step>>
         ELSE IF us_per_step_target # 0 /\ us_per_step = 0
         THEN <<max_us_per_step, last_accel_step>>
         ELSE IF now >= last_accel_step
         THEN LET num_steps == (now - last_accel_step) \div us_accel
                  target == IF us_per_step_target # 0 THEN us_per_step_target
                            ELSE max_us_per_step
              IN  << ramp_toward(us_per_step, num_steps, target),
                     IF num_steps # 0 THEN now ELSE last_accel_step >>
         ELSE <<us_per_step, last_accel_step>>
    ELSE <<us_per_step_target, last_accel_step>>

\* within the bounds of the model the quotient num_steps fits the int the
\* code stores it in
\* the ramp of stepper_update: <<us_per_step, last_accel_step>> after it
\* (num_steps is an int in the source; every quotient formed within the clock
\* bounds of this module is far below 2^31, so the conversion keeps its value)
ramp ==
    IF us_accel # 0
    THEN IF finishes_stop
         THEN <<0, last_accel_step>>
         ELSE IF us_per_step_target # 0 /\ us_per_step = 0
         THEN <<max_us_per_step, last_accel_step>>
         ELSE IF now >= last_accel_step
         THEN LET num_steps == (now - last_accel_step) \div us_accel
                  target == IF us_per_step_target # 0 THEN us_per_step_target
                            ELSE max_us_per_step
              IN  << ramp_toward(us_per_step, num_steps, target),
                     last_accel_step + us_accel * num_steps >>
         ELSE <<us_per_step, last_accel_step>>
    ELSE <<us_per_step_target, last_accel_step>>

\* whole intervals of length t elapsed since last_step
due_steps(t) == IF t # 0 /\ now >= last_step THEN (now - last_step) \div t ELSE 0

\* a return value that is true whenever a step was due
fell_behind_any_step(num_steps) == num_steps >= 1

\* a return value that is also true when no step was due
fell_behind_not_one(num_steps) == num_steps # 1

\* the value stepper_update returns for num_steps due steps
fell_behind(num_steps) == num_steps > 1

\* a step anchor that holds the time the next step is due
next_last_step_due(t) == now + t

\* a step anchor moved to the time of the poll
next_last_step_now(t) == now

\* s->last_step += s->us_per_step
next_last_step(t) == last_step + t

stepper_update ==
    LET rmp == ramp
        num_steps == due_steps(rmp[1])
    IN  /\ us_per_step' = rmp[1]
        /\ last_accel_step' = rmp[2]
        /\ IF num_steps # 0
           THEN LET r == step(TRUE)
                IN  /\ mask' = r[1] /\ half_mask' = r[2] /\ step_count' = r[3]
                    /\ gpio' = update(r[1], r[2], num_pins)
                    /\ last_step' = next_last_step(rmp[1])
           ELSE UNCHANGED <<phase_vars, last_step>>
        /\ ret' = fell_behind(num_steps)
        /\ op' = "update" /\ rpm_arg' = 0
        /\ UNCHANGED <<config_vars, enable_gpio, speed_vars, accel_vars, now>>

stepper_brake ==
    /\ mask' = 0
    /\ half_mask' = 0
    /\ gpio' = update(0, 0, num_pins)
    /\ op' = "brake" /\ rpm_arg' = 0 /\ ret' = FALSE
    /\ UNCHANGED <<config_vars, enable_gpio, step_count, speed_vars, us_per_step,
                   accel_vars, time_vars, now>>

stepper_hold ==
    /\ mask' = hold_pattern(mode)[1]
    /\ half_mask' = hold_pattern(mode)[2]
    /\ gpio' = update(hold_pattern(mode)[1], hold_pattern(mode)[2], num_pins)
    /\ op' = "hold" /\ rpm_arg' = 0 /\ ret' = FALSE
    /\ UNCHANGED <<config_vars, enable_gpio, step_count, speed_vars, us_per_step,
                   accel_vars, time_vars, now>>

\* gpio_put on the enable pin when the driver stage has one
stepper_enable(enable) ==
    /\ IF enable_pin >= 0
       THEN enable_gpio' = IF enable THEN 1 ELSE 0
       ELSE UNCHANGED enable_gpio
    /\ op' = "enable" /\ rpm_arg' = 0 /\ ret' = FALSE
    /\ UNCHANGED <<config_vars, phase_vars, speed_vars, us_per_step, accel_vars,
                   time_vars, now>>

\* a request taken as it is
clamp_rpm_none(rpm_in) == rpm_in

\* rpm = MIN(rpm, s->max_rpm)
clamp_rpm(rpm_in) == MIN(rpm_in, max_rpm)

\* a call that never returns early
same_target_never(rpm) == FALSE

\* the early return of stepper_set_rpm
same_target(rpm) == rpm = target_rpm

\* the counter is read twice, after the early return, and may advance by skew
\* between the two reads
stepper_set_rpm(rpm_in, skew) ==
    LET rpm == clamp_rpm(rpm_in)
    IN  /\ rpm_arg' = rpm_in
        /\ op' = "set_rpm" /\ ret' = FALSE
        /\ IF same_target(rpm)
           THEN skew = 0 /\ UNCHANGED <<speed_vars, time_vars, now>>
           ELSE /\ skew # 0 => now + skew <= MaxTime
                /\ target_rpm' = rpm
                /\ last_step' = now
                /\ last_accel_step' = now + skew
                /\ now' = now + skew
                /\ us_per_step_target' =
                       IF rpm # 0 THEN rpm_to_step_us(steps_per_rev, rpm) ELSE 0
        /\ UNCHANGED <<config_vars, enable_gpio, phase_vars, us_per_step, accel_vars>>

SetAccel == \E a \in AccelInputs : stepper_set_accel(a[1], a[2])
Step == \E forward \in BOOLEAN : stepper_step(forward)
Enable == \E enable \in BOOLEAN : stepper_enable(enable)
SetRpm == \E rpm_in \in RpmInputs, skew \in 0..MaxReadSkew : stepper_set_rpm(rpm_in, skew)

Next ==
    \/ Tick /\ UNCHANGED <<hist_vars, app_vars>>
    \/ stepper_add_pin /\ UNCHANGED <<hist_vars, app_vars>>
    \/ SetAccel /\ UNCHANGED <<hist_vars, app_vars>>
    \/ Step /\ UNCHANGED <<hist_vars, app_vars>>
    \/ stepper_update /\ UNCHANGED <<hist_vars, app_vars>>
    \/ stepper_brake /\ UNCHANGED <<hist_vars, app_vars>>
    \/ stepper_hold /\ UNCHANGED <<hist_vars, app_vars>>
    \/ SetRpm /\ UNCHANGED <<hist_vars, app_vars>>

Spec == Init /\ [][Next]_vars

(* ---------------------------------------------------------------------- *)
(* A caller that configures the acceleration and commands speeds up to      *)
(* CallWindow and from then on only polls: the main loop calls              *)
(* stepper_update on every iteration and the counter is free-running, hence *)
(* the weak fairness of both.                                               *)
LiveMaxTime == CallWindow + MaxReadSkew + RampBudget

LiveTick == TickTo(LiveMaxTime)

LiveNext ==
    \/ LiveTick /\ UNCHANGED <<hist_vars, app_vars>>
    \/ stepper_update /\ UNCHANGED <<hist_vars, app_vars>>
    \/ now <= CallWindow /\ SetAccel /\ UNCHANGED <<hist_vars, app_vars>>
    \/ now <= CallWindow /\ SetRpm /\ UNCHANGED <<hist_vars, app_vars>>

LiveSpec ==
    /\ Init /\ [][LiveNext]_vars
    /\ WF_vars(LiveTick /\ UNCHANGED <<hist_vars, app_vars>>)
    /\ WF_vars(stepper_update /\ UNCHANGED <<hist_vars, app_vars>>)

(* ---------------------------------------------------------------------- *)
(* The driver of a stage with an enable input, as main() creates it, under  *)
(* every call of the API: stepper_enable touches nothing but that pin.      *)
GateInit == Init /\ enable_pin >= 0

GateTick == TickTo(GateMaxTime)

GateNext ==
    \/ GateTick /\ UNCHANGED <<hist_vars, app_vars>>
    \/ stepper_add_pin /\ UNCHANGED <<hist_vars, app_vars>>
    \/ SetAccel /\ UNCHANGED <<hist_vars, app_vars>>
    \/ Step /\ UNCHANGED <<hist_vars, app_vars>>
    \/ stepper_update /\ UNCHANGED <<hist_vars, app_vars>>
    \/ stepper_brake /\ UNCHANGED <<hist_vars, app_vars>>
    \/ stepper_hold /\ UNCHANGED <<hist_vars, app_vars>>
    \/ Enable /\ UNCHANGED <<hist_vars, app_vars>>
    \/ SetRpm /\ UNCHANGED <<hist_vars, app_vars>>

GateSpec == GateInit /\ [][GateNext]_vars

(* ---------------------------------------------------------------------- *)
(* The driver as main() configures it: stepper_create(STEPS_PER_REV,        *)
(* MAX_RPM, STEPPER_MODE_HALF_STEP), hence 400 effective steps per          *)
(* revolution, commanded every speed up to and above MAX_RPM, with the      *)
(* acceleration of main() or none, all within one microsecond of the clock. *)
QueryRpmInputs == 0..(MAX_RPM + 1)
QueryAccelInputs == {<<0, RPM_STEP>>, <<MOTOR_ACCEL, RPM_STEP>>}

QueryInit ==
    /\ mode = STEPPER_MODE_HALF_STEP
    /\ steps_per_rev = STEPS_PER_REV * 2
    /\ enable_pin = MOTOR_ENABLE_PIN /\ enable_gpio = 0
    /\ max_rpm = MAX_RPM
    /\ num_pins = 0
    /\ mask = 0 /\ half_mask = 0 /\ gpio = 0 /\ step_count = 0
    /\ target_rpm = 0 /\ us_per_step_target = 0 /\ us_per_step = 0
    /\ us_accel = 0 /\ max_us_per_step = 0
    /\ last_step = 0 /\ last_accel_step = 0
    /\ now = 0
    /\ op = "create" /\ rpm_arg = 0 /\ ret = FALSE
    /\ ramp_t0 = 0 /\ ramp_change = 0
    /\ MainOff /\ ButtonOff

QuerySetAccel == \E a \in QueryAccelInputs : stepper_set_accel(a[1], a[2])
QuerySetRpm == \E rpm_in \in QueryRpmInputs : stepper_set_rpm(rpm_in, 0)

QueryNext ==
    \/ QuerySetAccel /\ UNCHANGED <<hist_vars, app_vars>>
    \/ QuerySetRpm /\ UNCHANGED <<hist_vars, app_vars>>
    \/ stepper_update /\ UNCHANGED <<hist_vars, app_vars>>

QuerySpec == QueryInit /\ [][QueryNext]_vars

\* a query that rounds the quotient up
stepper_get_actual_rpm_round_up ==
    IF us_per_step = 0 THEN 0
    ELSE (US_PER_MIN + us_per_step * steps_per_rev - 1) \div (us_per_step * steps_per_rev)

\* the value stepper_get_actual_rpm returns in the current state
stepper_get_actual_rpm ==
    IF us_per_step = 0 THEN 0
    ELSE US_PER_MIN \div (us_per_step * steps_per_rev)

\* the value stepper_get_rpm returns in the current state
stepper_get_rpm == target_rpm

\* the value stepper_step_count returns in the current state
stepper_step_count == step_count

TypeOK ==
    /\ mode \in {c[2] : c \in CreateInputs}
    /\ num_pins \in 0..NUM_MOTOR_PINS
    /\ enable_gpio \in {0, 1} /\ (enable_pin < 0 => enable_gpio = 0)
    /\ mask \in Nat /\ half_mask \in Nat /\ gpio \in Nat
    /\ us_per_step \in Nat /\ us_per_step_target \in Nat
    /\ last_step \in Nat /\ last_accel_step \in Nat
    /\ ret \in BOOLEAN

\* C1: with acceleration enabled and a nonzero commanded speed, once the caller
\* only polls while the clock advances, us_per_step eventually equals
\* us_per_step_target and stays equal to it from then on.
C1_RampConverges ==
    <>[](us_accel # 0 /\ target_rpm # 0 => us_per_step = us_per_step_target)

C1_Witness ==
    /\ op = "update" /\ us_accel # 0 /\ target_rpm # 0
    /\ us_per_step = us_per_step_target
    /\ now > CallWindow + MaxReadSkew

(* ------------------------------------------------------- ramp properties *)
\* the poll is about to take the ramp step of stepper_update: acceleration is
\* enabled and it neither finishes a stop nor seeds from stopped
TakesRampStep ==
    /\ us_accel # 0
    /\ ~(us_per_step_target = 0 /\ (us_per_step = max_us_per_step \/ us_per_step = 0))
    /\ ~(us_per_step_target # 0 /\ us_per_step = 0)

EffectiveTarget ==
    IF us_per_step_target # 0 THEN us_per_step_target ELSE max_us_per_step

Between(x, a, b) == (a <= x /\ x <= b) \/ (b <= x /\ x <= a)

\* C2: a poll that takes the ramp step leaves us_per_step between its old
\* value and the effective target, inclusive: the ramp is monotone and never
\* passes the target.
C2_RampNoOvershoot ==
    [][stepper_update /\ TakesRampStep
           => Between(us_per_step', us_per_step, EffectiveTarget)]_vars

\* a poll has left the interval strictly between the floor and a target
C2_Witness ==
    /\ op = "update" /\ us_accel # 0 /\ us_per_step_target # 0
    /\ us_per_step # max_us_per_step /\ us_per_step # us_per_step_target
    /\ Between(us_per_step, max_us_per_step, us_per_step_target)

\* C3: with acceleration enabled a poll takes a nonzero us_per_step to zero
\* only when it equals max_us_per_step, and while the target is zero every
\* other nonzero us_per_step moves toward max_us_per_step without passing it.
C3_StopThroughFloor ==
    [][stepper_update /\ us_accel # 0 /\ us_per_step # 0
           => /\ us_per_step' = 0 => us_per_step = max_us_per_step
              /\ us_per_step_target = 0 /\ us_per_step # max_us_per_step
                     => Between(us_per_step', us_per_step, max_us_per_step)]_vars

\* a poll made while decelerating to a stop, the interval not yet at the floor
C3_Witness ==
    /\ op = "update" /\ us_accel # 0 /\ target_rpm = 0
    /\ us_per_step # 0 /\ us_per_step # max_us_per_step

(* ------------------------------------------------- sequencer properties *)
\* C4: stepper_brake leaves both masks and every winding output zero, and
\* stepper_hold leaves the fixed pattern of the drive mode, whatever came
\* before it.
C4_BrakeThenHold ==
    /\ op = "brake" => mask = 0 /\ half_mask = 0 /\ gpio = 0
    /\ op = "hold" =>
           \/ mode = STEPPER_MODE_WAVE /\ mask = 1 /\ half_mask = 0
           \/ mode = STEPPER_MODE_DUAL_PHASE /\ mask = 3 /\ half_mask = 0
           \/ mode = STEPPER_MODE_HALF_STEP /\ mask = 1 /\ half_mask = 1

\* a hold made after steps were taken
C4_Witness ==
    /\ op = "hold" /\ step_count >= 2 /\ num_pins >= 2
    /\ mode = STEPPER_MODE_HALF_STEP /\ gpio = 1

\* C5 as claimed: after stepper_brake a poll takes no step and energizes no
\* winding.
C5_BrakeStops ==
    [][op = "brake" /\ stepper_update => gpio' = 0 /\ step_count' = step_count]_vars

\* C6: in half-step mode with two or more windings every step changes exactly
\* one mask: the primary mask when step_count is odd, the secondary mask when
\* it is even.
C6_HalfStepAlternates ==
    [][mode = STEPPER_MODE_HALF_STEP /\ num_pins >= 2 /\ step_count' # step_count
           => /\ step_count' = step_count + 1
              /\ IF step_count % 2 = 1
                 THEN mask' # mask /\ half_mask' = half_mask
                 ELSE half_mask' # half_mask /\ mask' = mask]_vars

\* three steps taken in half-step mode, the last by a poll
C6_Witness ==
    /\ mode = STEPPER_MODE_HALF_STEP /\ num_pins >= 2
    /\ op = "update" /\ step_count = 3

(* ---------------------------------------------------- speed and stepping *)
\* C7: stepper_set_rpm with the speed already commanded changes nothing of the
\* motor, whatever the clock reads.
C7_SetRpmIdempotent ==
    [][(op' = "set_rpm"
        /\ (IF rpm_arg' < max_rpm THEN rpm_arg' ELSE max_rpm) = target_rpm
        /\ SetRpm)
           => UNCHANGED <<motor_vars, now>>]_vars

\* the last call was stepper_set_rpm with the commanded speed, and it left the
\* ramp anchor behind the step anchor
C7_Witness ==
    /\ op = "set_rpm" /\ rpm_arg = target_rpm /\ target_rpm # 0
    /\ last_accel_step < last_step /\ last_step < now

\* C8: a poll at an unchanged nonzero interval T with k >= 1 whole intervals
\* elapsed takes one step and moves last_step by T, leaving k - 1 intervals due;
\* with k = 0 it takes none; no poll raises step_count by more than one.
C8_CatchUp ==
    [][stepper_update
           => /\ step_count' <= step_count + 1
              /\ us_per_step' = us_per_step /\ us_per_step # 0 /\ now >= last_step
                     => LET T == us_per_step
                            k == (now - last_step) \div T
                        IN  /\ k >= 1 =>
                                   /\ last_step' = last_step + T
                                   /\ (now - last_step') \div T = k - 1
                                   /\ IF mask # 0
                                      THEN step_count' = step_count + 1
                                      ELSE step_count' = step_count /\ mask' # 0
                            /\ k = 0 => UNCHANGED <<phase_vars, last_step>>]_vars

\* a poll that took a step while two or more intervals were still due
C8_Witness ==
    /\ op = "update" /\ ret /\ us_per_step # 0 /\ step_count >= 1
    /\ now - last_step >= us_per_step

\* C9: the commanded speed is the requested speed clamped to max_rpm, and its
\* interval is the one of the clamped speed.
C9_SpeedClamped ==
    /\ target_rpm <= max_rpm
    /\ op = "set_rpm" => target_rpm = (IF rpm_arg < max_rpm THEN rpm_arg ELSE max_rpm)
    /\ us_per_step_target =
           IF target_rpm = 0 THEN 0 ELSE US_PER_MIN \div (target_rpm * steps_per_rev)

\* a request above max_rpm was the last call
C9_Witness ==
    op = "set_rpm" /\ rpm_arg > max_rpm /\ target_rpm = max_rpm

\* C10 as claimed: stepper_update returns true exactly on the polls that
\* advance the phase.
C10_ReturnsStepTaken ==
    [][stepper_update => (ret' <=> step_count' = step_count + 1)]_vars

\* C10 amended: stepper_update returns true only on polls in which a step was
\* due and taken, and false on a poll that steps with one interval elapsed.
C10_ReturnsFellBehind ==
    [][stepper_update
           => /\ ret' => /\ last_step' = last_step + us_per_step'
                          /\ us_per_step' # 0
                          /\ (step_count' = step_count + 1 \/ mask = 0)
              /\ (us_per_step' # 0 /\ now - last_step >= us_per_step'
                  /\ now - last_step < 2 * us_per_step')
                     => ~ret' /\ last_step' = last_step + us_per_step']_vars

\* a poll that stepped at the time it was due and returned false
C10_Witness ==
    /\ op = "update" /\ ~ret /\ us_per_step # 0 /\ step_count >= 1
    /\ last_step = now /\ last_accel_step < now
(* ------------------------------------------------------ query properties *)
\* C11: stepper_get_actual_rpm returns zero exactly when us_per_step is zero,
\* and once us_per_step equals us_per_step_target it returns the commanded
\* speed: with 400 effective steps per revolution every speed of 1..MAX_RPM
\* survives the conversion to an interval and back.
C11_ActualRpmRoundTrip ==
    /\ stepper_get_actual_rpm = 0 <=> us_per_step = 0
    /\ us_per_step = us_per_step_target => stepper_get_actual_rpm = stepper_get_rpm

\* a poll has applied the interval of 7 rpm, which does not divide 150000
C11_Witness ==
    /\ op = "update" /\ target_rpm = 7 /\ us_per_step = us_per_step_target
    /\ us_per_step * 7 < 150000 /\ stepper_get_actual_rpm = 7
C13_PatternNeverCleared ==
    [][/\ (num_pins >= 1 /\ (mask # 0 \/ half_mask # 0) /\ mask' = 0 /\ half_mask' = 0)
              => op' = "brake" /\ stepper_brake
       /\ op' = "hold" /\ now' = now /\ stepper_hold => BitOr(mask', half_mask') # 0]_vars

\* a forward step has taken the bit of the hold pattern round the end of the
\* ring
C13_Witness ==
    /\ op \in {"step", "update"} /\ mode = STEPPER_MODE_WAVE /\ num_pins >= 2
    /\ step_count = 1 /\ mask = Pow2(num_pins - 1) /\ gpio = mask
(* ------------------------------------------------- step clock properties *)
\* C14: stepper_update returns true exactly when the interval it applies is
\* nonzero and more than one whole interval has elapsed since last_step; so it
\* returns false with one interval elapsed and with a zero interval.
C14_FellBehindExact ==
    [][op' = "update" /\ now' = now /\ stepper_update
           => (ret' <=> /\ us_per_step' # 0
                        /\ now >= last_step
                        /\ (now - last_step) \div us_per_step' > 1)]_vars

\* a poll that ramped the interval down to the target found two intervals
\* elapsed
C14_Witness ==
    /\ op = "update" /\ ret /\ us_accel # 0
    /\ us_per_step = us_per_step_target /\ us_per_step < max_us_per_step
(* ------------------------------------------------- half-step properties *)
\* the single-bit patterns of a ring of n windings
RingBits(n) == {Pow2(i) : i \in 0..(n - 1)}

\* two single-bit patterns on the same winding or on neighbours in the ring
SameOrAdjacent(a, b, n) ==
    \/ a = b
    \/ a = 2 * b \/ b = 2 * a
    \/ a = 1 /\ b = Pow2(n - 1)
    \/ b = 1 /\ a = Pow2(n - 1)

\* C15 as claimed: in half-step mode with four windings, once a pattern is
\* established, mask and half_mask are single bits on the same winding or on
\* ring-adjacent windings, whatever steps were taken in either direction.
C15_HalfStepAdjacent ==
    mode = STEPPER_MODE_HALF_STEP /\ num_pins = NUM_MOTOR_PINS
        /\ (mask # 0 \/ half_mask # 0)
        => /\ mask \in RingBits(num_pins)
           /\ half_mask \in RingBits(num_pins)
           /\ SameOrAdjacent(mask, half_mask, num_pins)
(* ---------------------------------------------------------------------- *)
(* The caller of LiveSpec with the history of the ramp: ramp_t0 is the      *)
(* clock after the last stepper_set_rpm that changed the target (the value  *)
(* it left in last_accel_step), ramp_change the sum of the changes the ramp *)
(* step of stepper_update has made to us_per_step since; seeding from       *)
(* stopped and finishing a stop are not ramp steps.                         *)
Abs(x) == IF x < 0 THEN -x ELSE x

RampTick == LiveTick /\ UNCHANGED <<hist_vars, app_vars>>

RampSetAccel == now <= CallWindow /\ SetAccel /\ UNCHANGED <<hist_vars, app_vars>>

RampSetRpm ==
    /\ now <= CallWindow
    /\ SetRpm
    /\ IF target_rpm' # target_rpm
       THEN ramp_t0' = now' /\ ramp_change' = 0
       ELSE UNCHANGED hist_vars
    /\ UNCHANGED app_vars

RampPoll ==
    /\ stepper_update
    /\ ramp_t0' = ramp_t0
    /\ ramp_change' =
           IF TakesRampStep THEN ramp_change + Abs(us_per_step' - us_per_step)
           ELSE ramp_change
    /\ UNCHANGED app_vars

RampNext ==
    \/ RampTick
    \/ RampSetAccel
    \/ RampSetRpm
    \/ RampPoll

RampSpec == Init /\ [][RampNext]_vars

\* C16: a poll that takes the ramp step changes us_per_step by no more than
\* the whole units of us_accel elapsed since last_accel_step, and the changes
\* of the ramp steps since the last stepper_set_rpm that changed the target
\* add up to no more than the whole units elapsed since that call, however
\* the polls were spaced.
C16_RampRateBounded ==
    [][RampPoll /\ TakesRampStep
           => /\ IF now >= last_accel_step
                 THEN Abs(us_per_step' - us_per_step)
                          <= (now - last_accel_step) \div us_accel
                 ELSE us_per_step' = us_per_step
              /\ ramp_change' <= (now - ramp_t0) \div us_accel]_vars

\* polls have ramped by two units in the time of two units after a speed was
\* commanded at a nonzero clock value
C16_Witness ==
    /\ op = "update" /\ us_accel # 0 /\ ramp_t0 > 0
    /\ ramp_change >= 2 /\ ramp_change = (now - ramp_t0) \div us_accel

\* C17: a poll that takes the ramp step moves last_accel_step by the whole
\* units of us_accel elapsed, also when the change of us_per_step was clamped
\* at the target, so that less than one unit is left over, and the units
\* consumed since the last stepper_set_rpm that changed the target are the
\* whole units elapsed since then, however the polls were spaced.
C17_RampRemainderKept ==
    [][RampPoll /\ TakesRampStep /\ now >= last_accel_step
           => LET units == (now - last_accel_step) \div us_accel
              IN  /\ last_accel_step' = last_accel_step + units * us_accel
                  /\ 0 <= now - last_accel_step'
                  /\ now - last_accel_step' < us_accel
                  /\ last_accel_step' =
                         ramp_t0 + us_accel * ((now - ramp_t0) \div us_accel)]_vars

\* a poll whose change was clamped at the target has left a remainder, after
\* an earlier poll had ramped
C17_Witness ==
    /\ op = "update" /\ us_accel # 0 /\ ramp_change >= 1
    /\ us_per_step = us_per_step_target /\ us_per_step # 0
    /\ now - last_accel_step = 1
    /\ (last_accel_step - ramp_t0) \div us_accel > ramp_change
(* ----------------------------------------------- ramp branch properties *)
\* C18: with acceleration disabled every poll leaves us_per_step equal to
\* us_per_step_target, whatever it was before, also when the target is zero.
C18_InstantWithoutAccel ==
    [][op' = "update" /\ now' = now /\ stepper_update /\ us_accel = 0
           => us_per_step' = us_per_step_target]_vars

\* a poll has stopped a motor at once: the speed was set to zero at a nonzero
\* clock value after steps were taken, with the acceleration configured and
\* then disabled
C18_Witness ==
    /\ op = "update" /\ us_accel = 0 /\ max_us_per_step # 0
    /\ us_per_step_target = 0 /\ us_per_step = 0
    /\ step_count >= 1 /\ last_step > 0

\* C19: with acceleration enabled a poll that finds us_per_step zero and a
\* nonzero target leaves us_per_step at max_us_per_step, whatever the target
\* and the time elapsed, and consumes no ramp time; a poll that finds a zero
\* target and us_per_step zero or at max_us_per_step leaves us_per_step zero.
C19_SeedAndFinish ==
    [][op' = "update" /\ now' = now /\ stepper_update /\ us_accel # 0
           => /\ us_per_step = 0 /\ us_per_step_target # 0
                     => /\ us_per_step' = max_us_per_step
                        /\ last_accel_step' = last_accel_step
              /\ us_per_step_target = 0 /\ us_per_step \in {0, max_us_per_step}
                     => /\ us_per_step' = 0
                        /\ last_accel_step' = last_accel_step]_vars

\* a poll made two ramp units after a faster speed was commanded has seeded
\* the interval at the floor and no further
C19_Witness ==
    /\ op = "update" /\ us_accel # 0
    /\ us_per_step = max_us_per_step /\ us_per_step_target # 0
    /\ us_per_step_target < max_us_per_step
    /\ now - last_accel_step >= 2 * us_accel

\* C20: stepper_step runs the step routine whatever the interval and the time
\* elapsed (a phase advance, or the hold pattern when mask is zero), and
\* leaves last_step and last_accel_step at the clock value; a
\* poll at that clock value takes no step and consumes no ramp time, and the
\* first poll that steps after it does so one whole interval or more after it.
C20_DirectStepResetsAnchors ==
    [][/\ op' = "step" /\ now' = now /\ Step
              => /\ last_step' = now /\ last_accel_step' = now
                 /\ IF mask # 0
                    THEN step_count' = step_count + 1
                    ELSE mask' = hold_pattern(mode)[1] /\ step_count' = step_count
       /\ op = "step" /\ now' = now /\ stepper_update
              => /\ last_step = now
                     => /\ UNCHANGED <<phase_vars, time_vars>>
                        /\ ~ret'
                 /\ last_step' # last_step
                     => /\ us_per_step' # 0
                        /\ now - last_step >= us_per_step']_vars

\* the second direct step was taken with a nonzero interval, and one interval
\* has elapsed since
C20_Witness ==
    /\ op = "step" /\ step_count = 2 /\ us_per_step # 0
    /\ last_accel_step = last_step /\ now - last_step = us_per_step
(* ----------------------------------------------------- ring properties *)
\* the pattern m of a ring of n windings turned by one position, by arithmetic
Rotate(m, forward, n) ==
    IF forward
    THEN (m \div 2) + (m % 2) * Pow2(n - 1)
    ELSE ((2 * m) % Pow2(n)) + ((2 * m) \div Pow2(n))

\* the patterns of two neighbouring windings of a ring of n
AdjacentPairs(n) ==
    {BitOr(bit, Rotate(bit, TRUE, n)) : bit \in RingBits(n)}

RECURSIVE StepMaskTimes(_, _, _, _)
StepMaskTimes(m, forward, n, k) ==
    IF k = 0 THEN m ELSE StepMaskTimes(step_mask(m, forward, n), forward, n, k - 1)

\* what C21 says of a step in direction forward that took mask to mask'
RingStep(forward) ==
    /\ half_mask' = 0
    /\ mask' = Rotate(mask, forward, num_pins)
    /\ IF mode = STEPPER_MODE_WAVE
       THEN mask' \in RingBits(num_pins)
       ELSE mask' \in AdjacentPairs(num_pins)
    /\ step_mask(mask', ~forward, num_pins) = mask
    /\ StepMaskTimes(mask', forward, num_pins, num_pins) = mask'

\* C21: in wave and dual-phase mode with two or more windings a step turns
\* the pattern by one position round the ring: one bit stays one bit, two
\* neighbouring bits stay two neighbouring bits, a step the other way undoes
\* it, and num_pins further steps the same way come back to the pattern.
C21_RingRotation ==
    [][mode # STEPPER_MODE_HALF_STEP /\ num_pins >= 2 /\ mask # 0
       /\ step_count' = step_count + 1
           => /\ \A forward \in BOOLEAN :
                     op' = "step" /\ stepper_step(forward) => RingStep(forward)
              /\ op' = "update" /\ stepper_update => RingStep(TRUE)]_vars

\* a backward step has taken the dual-phase pattern round the end of a ring
\* of four
C21_Witness ==
    /\ op = "step" /\ mode = STEPPER_MODE_DUAL_PHASE /\ num_pins = NUM_MOTOR_PINS
    /\ step_count = 2 /\ mask = 9 /\ gpio = 9

(* ------------------------------------------------------ stop properties *)
\* C22: with acceleration enabled and the target speed zero, a motor that is
\* running comes to us_per_step = 0 under continued polling unless a nonzero
\* target is set first, and while it is stopped with a zero target no poll
\* takes a step, changes the masks or the outputs, or restarts it.
C22_StopsAndStaysStopped ==
    /\ (us_accel # 0 /\ target_rpm = 0 /\ us_per_step # 0)
           ~> (us_per_step = 0 \/ target_rpm # 0)
    /\ [][op' = "update" /\ now' = now /\ target_rpm = 0 /\ us_per_step = 0
           /\ stepper_update
               => /\ UNCHANGED <<phase_vars, time_vars>>
                  /\ us_per_step' = 0 /\ ret' = FALSE]_vars

\* a motor that has stepped under acceleration is stopped after its target
\* was set to zero
C22_Witness ==
    /\ op = "update" /\ us_accel # 0 /\ target_rpm = 0 /\ us_per_step = 0
    /\ step_count >= 1 /\ last_accel_step >= 1 /\ now > last_accel_step

(* ---------------------------------------------------- anchor properties *)
\* C23: in every state reached by any interleaving of the calls and of the
\* clock, last_step and last_accel_step are at or before the clock, so the
\* guards now >= last_step and now >= last_accel_step of stepper_update hold
\* at every poll and no poll leaves an anchor past the time it read.
C23_AnchorsNotAhead ==
    /\ last_step <= now
    /\ last_accel_step <= now

\* a poll has stepped and ramped, and left both anchors short of the clock
C23_Witness ==
    /\ op = "update" /\ us_accel # 0 /\ step_count >= 1
    /\ us_per_step # 0 /\ us_per_step # max_us_per_step
    /\ last_step >= 1 /\ last_step < now
    /\ last_accel_step >= 1 /\ last_accel_step < now

(* ---------------------------------------------------------------------- *)
(* main(): the loop of main.c on the driver as main() sets it up, one      *)
(* action per statement of the loop that calls the driver. What the three  *)
(* buttons report in an iteration is an input of the statement reading it. *)
SLEEP_TIMEOUT_US == 60 * US_PER_SEC
DEFAULT_PERSIST_TARGET_RPM == 20

MainTimeouts == 2
MainMaxTime == MainTimeouts * SLEEP_TIMEOUT_US

\* persist.target_rpm as read_persist returns it: the default, or a value a
\* previous run stored
PersistInputs == {DEFAULT_PERSIST_TARGET_RPM}
\* the time that passes between two statements
MainTickInputs == {SLEEP_TIMEOUT_US}
\* what the start/stop button reports: nothing, pressed for four seconds or
\* longer, or released
StartStopInputs == {"none", "held", "up"}

\* the state at the head of the loop: stepper_create, four stepper_add_pin,
\* stepper_set_accel, stepper_enable(true), stepper_hold
MainInit ==
    /\ mode = STEPPER_MODE_HALF_STEP
    /\ steps_per_rev = STEPS_PER_REV * 2
    /\ enable_pin = MOTOR_ENABLE_PIN /\ enable_gpio = 1
    /\ max_rpm = MAX_RPM
    /\ num_pins = NUM_MOTOR_PINS
    /\ mask = hold_pattern(STEPPER_MODE_HALF_STEP)[1]
    /\ half_mask = hold_pattern(STEPPER_MODE_HALF_STEP)[2]
    /\ gpio = update(hold_pattern(STEPPER_MODE_HALF_STEP)[1],
                     hold_pattern(STEPPER_MODE_HALF_STEP)[2], NUM_MOTOR_PINS)
    /\ step_count = 0
    /\ target_rpm = 0 /\ us_per_step_target = 0 /\ us_per_step = 0
    /\ us_accel = rpm_to_step_us(STEPS_PER_REV * 2, MOTOR_ACCEL * 60)
    /\ max_us_per_step = rpm_to_step_us(STEPS_PER_REV * 2, RPM_STEP)
    /\ last_step = 0 /\ last_accel_step = 0
    /\ now = 0
    /\ op = "hold" /\ rpm_arg = 0 /\ ret = FALSE
    /\ ramp_t0 = 0 /\ ramp_change = 0
    /\ run = FALSE /\ sleeping = FALSE
    /\ persist_target_rpm \in PersistInputs
    /\ sleep_start = 0 /\ loop_now = 0
    /\ pc = "top"
    /\ ButtonOff

driver_idle == UNCHANGED <<motor_vars, now, op, rpm_arg, ret>>

MainTick ==
    \E d \in MainTickInputs :
        /\ now + d <= MainMaxTime
        /\ now' = now + d
        /\ UNCHANGED <<motor_vars, op, rpm_arg, ret, main_vars>>

\* a speed handed to the driver whether or not the motor runs
set_target_rpm_always(new_rpm) ==
    LET clamped == MIN(MAX(new_rpm, RPM_STEP), MAX_RPM)
    IN  /\ persist_target_rpm' = clamped
        /\ stepper_set_rpm(clamped, 0)

set_target_rpm(new_rpm) ==
    LET clamped == MIN(MAX(new_rpm, RPM_STEP), MAX_RPM)
    IN  /\ persist_target_rpm' = clamped
        /\ IF run THEN stepper_set_rpm(clamped, 0) ELSE driver_idle

\* set_sleep(true): the early return, else the flag and stepper_enable(false)
set_sleep_true ==
    IF sleeping
    THEN UNCHANGED sleeping /\ driver_idle
    ELSE sleeping' = TRUE /\ stepper_enable(FALSE)

\* uint64_t now = time_us_64() and the sleep timeout
main_top ==
    /\ pc = "top"
    /\ loop_now' = now
    /\ IF ~run /\ ~sleeping /\ now >= sleep_start + SLEEP_TIMEOUT_US
       THEN set_sleep_true
       ELSE UNCHANGED sleeping /\ driver_idle
    /\ pc' = "poll"
    /\ UNCHANGED <<run, persist_target_rpm, sleep_start>>

\* gpio_put(LED_PIN, stepper_update(motor) ? 1 : 0)
main_poll ==
    /\ pc = "poll"
    /\ due_steps(ramp[1]) # 0 => step_count < MaxSteps
    /\ stepper_update
    /\ pc' = "buttons"
    /\ UNCHANGED <<run, sleeping, persist_target_rpm, sleep_start, loop_now>>

\* if (sleeping): a released button wakes, as far as stepper_enable(true) of
\* set_sleep(false)
main_sleeping ==
    /\ pc = "buttons" /\ sleeping
    /\ \E any_up \in BOOLEAN :
           IF any_up
           THEN sleeping' = FALSE /\ stepper_enable(TRUE) /\ pc' = "hold"
           ELSE UNCHANGED sleeping /\ driver_idle /\ pc' = "top"
    /\ UNCHANGED <<run, persist_target_rpm, sleep_start, loop_now>>

\* stepper_hold of set_sleep(false), then sleep_start = now
main_hold ==
    /\ pc = "hold"
    /\ stepper_hold
    /\ sleep_start' = loop_now
    /\ pc' = "top"
    /\ UNCHANGED <<run, sleeping, persist_target_rpm, loop_now>>

\* if (button_repeat(up_button))
main_up ==
    /\ pc = "buttons" /\ ~sleeping
    /\ \E repeat \in BOOLEAN :
           IF repeat
           THEN set_target_rpm(persist_target_rpm + RPM_STEP) /\ sleep_start' = loop_now
           ELSE UNCHANGED <<persist_target_rpm, sleep_start>> /\ driver_idle
    /\ pc' = "down"
    /\ UNCHANGED <<run, sleeping, loop_now>>

\* persist.target_rpm - RPM_STEP in unsigned arithmetic: below zero it wraps
\* to a value above MAX_RPM
one_step_down ==
    IF persist_target_rpm >= RPM_STEP THEN persist_target_rpm - RPM_STEP
    ELSE MAX_RPM + 1

\* if (button_repeat(down_button))
main_down ==
    /\ pc = "down"
    /\ \E repeat \in BOOLEAN :
           IF repeat
           THEN set_target_rpm(one_step_down) /\ sleep_start' = loop_now
           ELSE UNCHANGED <<persist_target_rpm, sleep_start>> /\ driver_idle
    /\ pc' = "start_stop"
    /\ UNCHANGED <<run, sleeping, loop_now>>

\* the start/stop button: held for four seconds while stopped it puts the
\* device to sleep and waits for the release, released it toggles run
main_start_stop ==
    /\ pc = "start_stop"
    /\ \E ev \in StartStopInputs :
           IF ~run /\ ev = "held"
           THEN /\ set_sleep_true
                /\ UNCHANGED <<run, sleep_start>>
           ELSE IF ev = "up"
           THEN /\ run' = ~run
                /\ IF ~run
                   THEN stepper_set_rpm(persist_target_rpm, 0)
                   ELSE stepper_set_rpm(0, 0)
                /\ sleep_start' = loop_now
                /\ UNCHANGED sleeping
           ELSE UNCHANGED <<run, sleeping, sleep_start>> /\ driver_idle
    /\ pc' = "top"
    /\ UNCHANGED <<persist_target_rpm, loop_now>>

MainNext ==
    \/ MainTick /\ UNCHANGED <<hist_vars, button_vars>>
    \/ main_top /\ UNCHANGED <<hist_vars, button_vars>>
    \/ main_poll /\ UNCHANGED <<hist_vars, button_vars>>
    \/ main_sleeping /\ UNCHANGED <<hist_vars, button_vars>>
    \/ main_hold /\ UNCHANGED <<hist_vars, button_vars>>
    \/ main_up /\ UNCHANGED <<hist_vars, button_vars>>
    \/ main_down /\ UNCHANGED <<hist_vars, button_vars>>
    \/ main_start_stop /\ UNCHANGED <<hist_vars, button_vars>>

MainSpec == MainInit /\ [][MainNext]_vars

\* C24: in main() sleeping implies that run is false, run changes only
\* while not sleeping, the target speed of the driver is nonzero only while
\* run is true (a new speed reaches the driver only when running, and
\* stopping calls stepper_set_rpm(motor, 0)), and the enable pin is low only
\* while the motor is not commanded to run.
C24_NeverAsleepRunning ==
    /\ [](/\ sleeping => ~run
          /\ target_rpm # 0 => run
          /\ enable_gpio = 0 => ~run /\ target_rpm = 0)
    /\ [][/\ run' # run => ~sleeping /\ ~sleeping'
          /\ run /\ ~run' => op' = "set_rpm" /\ rpm_arg' = 0 /\ target_rpm' = 0
          /\ target_rpm' # target_rpm /\ target_rpm' # 0 => run']_vars

\* the device sleeps after the motor has run, stepped and been stopped
C24_Witness ==
    /\ sleeping /\ ~run /\ enable_gpio = 0
    /\ step_count >= 1 /\ target_rpm = 0

(* ---------------------------------------------------------------------- *)
(* button.c: one button polled by button_update. time_us_32() is the low   *)
(* 32 bits of the microsecond counter; every time of this specification is *)
(* a multiple of 8 us, and the counter is kept in units of 8 us, so that   *)
(* it wraps at 2^32 us = 2^29 units exactly as the uint32_t of the code.   *)
TICK_BITS == 3
TICK_US == Pow2(TICK_BITS)
U32 == Pow2(32 - TICK_BITS)

\* ms * 1000 microseconds, in units
ms_to_ticks(ms) == (ms * 1000) \div TICK_US

\* uint32_t addition and subtraction
add32(a, c) == (a + c) % U32
sub32(a, c) == (a - c) % U32

ButtonMaxPolls == 6

\* button_create(pin, true, 35) of make_button
DebounceInputs == {35}
\* button_set_repeat(b, 1000, 500) of make_button
RepeatInputs == {<<1000, 500>>}
\* time_us_32() before the first poll: the counter has just started, or
\* is one debounce time short of wrapping
ClockInputs == {0, U32 - ms_to_ticks(35)}
\* the time from one poll to the next, in units
PollGapInputs == {1, ms_to_ticks(35), ms_to_ticks(500)}

\* no stepper has been created
DriverOff ==
    /\ mode = STEPPER_MODE_WAVE /\ steps_per_rev = 0 /\ enable_pin = -1
    /\ enable_gpio = 0 /\ max_rpm = 0 /\ num_pins = 0
    /\ mask = 0 /\ half_mask = 0 /\ gpio = 0 /\ step_count = 0
    /\ target_rpm = 0 /\ us_per_step_target = 0 /\ us_per_step = 0
    /\ us_accel = 0 /\ max_us_per_step = 0
    /\ last_step = 0 /\ last_accel_step = 0
    /\ now = 0
    /\ op = "create" /\ rpm_arg = 0 /\ ret = FALSE
    /\ ramp_t0 = 0 /\ ramp_change = 0

ButtonInit ==
    /\ DriverOff /\ MainOff
    /\ \E d \in DebounceInputs : btn = [button_zero EXCEPT !.debounce_ms = d]
    /\ now32 \in ClockInputs
    /\ last_event = "none" /\ press_age = -1 /\ polls = 0

button_set_repeat(repeat_delay_ms, repeat_ms) ==
    /\ polls = 0
    /\ btn' = [btn EXCEPT !.repeat_delay_ms = repeat_delay_ms, !.repeat_ms = repeat_ms]
    /\ UNCHANGED <<now32, last_event, press_age, polls>>

\* the while loop of STATE_REPEAT: <<last_repeat, repeat_count>> after it. The
\* iterations that do not wrap last_repeat are taken together, the one that
\* wraps it alone.
RECURSIVE repeat_loop(_, _, _, _)
repeat_loop(last, count, r, t) ==
    IF add32(last, r) >= t THEN <<last, count>>
    ELSE IF last + r >= U32 THEN repeat_loop(add32(last, r), count + 1, r, t)
    ELSE LET k == (t - last - 1) \div r
         IN  repeat_loop(last + k * r, count + k, r, t)

\* case STATE_REPEAT, up to the fallthrough
repeat_case(c, t) ==
    IF c.repeat_ms # 0
    THEN LET l == repeat_loop(c.last_repeat, c.repeat_count, ms_to_ticks(c.repeat_ms), t)
         IN  [c EXCEPT !.last_repeat = l[1], !.repeat_count = l[2]]
    ELSE c

\* now >= b->start_time + b->debounce_ms * 1000
debounce_over(c, t) == t >= add32(c.start_time, ms_to_ticks(c.debounce_ms))

\* the else branch of case STATE_PRESSED
released_case(c, t) ==
    [c EXCEPT !.up = TRUE, !.state = "RELEASED", !.last_duration = sub32(t, c.start_time)]

\* case STATE_PRESSED, entered with the state the switch was taken on
pressed_case(c, state, pressed, t) ==
    LET p == [c EXCEPT !.is_pressed = pressed]
    IN  IF pressed
        THEN IF /\ state = "PRESSED" /\ p.repeat_delay_ms # 0
                /\ t >= add32(p.start_time, ms_to_ticks(p.repeat_delay_ms))
             THEN [p EXCEPT !.state = "REPEAT", !.last_repeat = t,
                            !.repeat_count = p.repeat_count + 1]
             ELSE p
        ELSE released_case(p, t)

\* the struct after button_update has read pressed and the time t
button_after(pressed, t) ==
    LET c == [btn EXCEPT !.down = FALSE, !.up = FALSE, !.is_pressed = FALSE]
    IN  CASE btn.state = "RELEASED" ->
                 IF pressed THEN [c EXCEPT !.state = "DEBOUNCE", !.start_time = t] ELSE c
          [] btn.state = "DEBOUNCE" ->
                 IF pressed
                 THEN IF debounce_over(c, t)
                      THEN [c EXCEPT !.down = TRUE, !.state = "PRESSED",
                                     !.start_time = t, !.repeat_count = 1]
                      ELSE c
                 ELSE [c EXCEPT !.state = "RELEASED"]
          [] btn.state = "REPEAT" -> pressed_case(repeat_case(c, t), "REPEAT", pressed, t)
          [] btn.state = "PRESSED" -> pressed_case(c, "PRESSED", pressed, t)

\* a poll d units after the one before, with the pin read as pressed or not
button_update(pressed, d) ==
    /\ polls < ButtonMaxPolls
    /\ now32' = add32(now32, d)
    /\ btn' = button_after(pressed, now32')
    /\ polls' = polls + 1
    /\ last_event' = IF btn'.down THEN "down" ELSE IF btn'.up THEN "up" ELSE last_event
    /\ press_age' = IF ~pressed THEN -1 ELSE IF press_age < 0 THEN 0 ELSE press_age + d

button_repeat ==
    /\ btn' = [btn EXCEPT !.repeat_count = 0]
    /\ UNCHANGED <<now32, last_event, press_age, polls>>

\* the values button_down and button_up return in the current state
button_down == btn.down
button_up == btn.up

SetRepeat == \E r \in RepeatInputs : button_set_repeat(r[1], r[2])
Poll == \E pressed \in BOOLEAN, d \in PollGapInputs : button_update(pressed, d)

ButtonNext ==
    \/ SetRepeat /\ UNCHANGED <<motor_vars, now, op, rpm_arg, ret, hist_vars, main_vars>>
    \/ Poll /\ UNCHANGED <<motor_vars, now, op, rpm_arg, ret, hist_vars, main_vars>>
    \/ button_repeat /\ UNCHANGED <<motor_vars, now, op, rpm_arg, ret, hist_vars, main_vars>>

ButtonSpec == ButtonInit /\ [][ButtonNext]_vars

\* C25: over the polls of button_update, down and up alternate starting with
\* down and each is reported for one poll; up is reported only on the poll
\* that first sees the input released after a down; and the input must have
\* been seen pressed for debounce_ms before down is reported, so that an
\* input released earlier produces no down, no up and no repeat count.
C25_EventPairing ==
    [][polls' = polls + 1
           => /\ button_down' => ~button_down /\ last_event # "down"
              /\ button_up' => ~button_up /\ last_event = "down"
              /\ ~(button_down' /\ button_up')
              /\ button_up' => press_age >= 0 /\ press_age' = -1
              /\ button_down' => press_age' >= ms_to_ticks(btn.debounce_ms)
              /\ (press_age' = -1 /\ last_event # "down")
                     => /\ ~button_down' /\ ~button_up'
                        /\ btn'.repeat_count = btn.repeat_count]_vars
====
